---------------------------- MODULE Spec2Model ----------------------------
(***************************************************************************)
(* Model of the catalogue-update routines of vamdclib (database.py,        *)
(* request.py): the sqlite catalogue (Partitionfunctions, Transitions),    *)
(* the remote node it is reconciled with, and the handlers                 *)
(* check_for_new_species, check_for_updates, update_species_data,          *)
(* update_database, delete_species and set_status.                         *)
(*                                                                         *)
(* Conventions.  SQL NULL and Python None are the string NULL.  A name is  *)
(* the sequence of its ';'-separated segments.  Energies are integers in   *)
(* units of 1e-7, so that the "%lf" formatting (six decimals) is a real    *)
(* rounding.  A partition-function value that is SQL NULL is PFNULL.       *)
(* Columns that no routine modelled here reads back (frequency, Einstein   *)
(* A, uncertainty, weight, quantum numbers, comment, url, resource id,     *)
(* recommendation, create date) are left out of the rows.                  *)
(***************************************************************************)
EXTENDS Integers, Sequences, FiniteSets, TLC

VARIABLES
    remote,  \* what the node serves: its species, and its radiative transitions
             \* when they are fixed for the whole behaviour
    store,   \* the sqlite connection: working tables, last_insert_rowid,
             \* committed tables, and whether an explicit transaction is open
    pc,      \* position of the running handler ("idle" between calls)
    loc,     \* local variables of the running handler
    hist,    \* calls made so far (call log kept for the properties)
    served   \* radiative transitions the node has served so far

vars == <<remote, store, pc, loc, hist, served>>

-----------------------------------------------------------------------------
(* Bounds of the model *)

MaxTrans == 2     \* radiative transitions the node serves in one behaviour
MaxCalls == 3     \* handler invocations in one behaviour
MaxCallsFixed == 4  \* the same, when the node's transitions are fixed
MaxLegacyTrans == 1  \* radiative transitions in a result insert_species_data reads
NumTemps == 2     \* length of the temperature grid TEMPERATURES

-----------------------------------------------------------------------------
(* Values *)

NULL == "NULL"
PFNULL == 0
\* db_id=None, among PF_IDs
NoId == -2

Species == {"A", "B"}
Grid == 1..NumTemps

STATI == {"New", "Update Available", "Up-To-Date", "Outdated", "Keep",
          "Updating", "Update Failed"}

Max(S) == CHOOSE x \in S : \A y \in S : y <= x

SeqToSet(s) == {s[i] : i \in 1..Len(s)}

\* IFNULL(x, '')
IFNULL(x) == IF x = NULL THEN "" ELSE x

\* None for NULL or the empty string (update_species_data, building sidx)
NoneIfEmpty(x) == IF x = NULL \/ x = "" THEN NULL ELSE x

\* "%lf" % x, stored in a REAL column: x rounded to six decimals (ten units)
Fmt6(x) == IF x >= 0 THEN ((x + 5) \div 10) * 10
                     ELSE 0 - (((0 - x) + 5) \div 10) * 10

\* a name is the sequence of its segments, which the code joins with ';'
SegmentUnlessNone(x) == IF x # NULL THEN <<x>> ELSE <<>>

\* lines 72-77: ";%s" % x is appended for a value that is neither None nor ''
Segment(x) == IF x # NULL /\ x # "" THEN <<x>> ELSE <<>>

make_name(name, nsi, hfs, state) ==
    name \o Segment(nsi) \o Segment(state) \o Segment(hfs)

-----------------------------------------------------------------------------
(* The remote node *)

\* One radiative transition of a result, with the states it refers to:
\*   sp   transition.SpeciesID
\*   st   both state references resolve (result.get_state)
\*   unc  FrequencyAccuracy: "num", "none" (None) or "bad" (a non-numeric string)
\*   wt   upper_state.TotalStatisticalWeight: "num" or "bad" (missing or non-numeric)
\*   ea   TransitionProbabilityA: "num" or "bad"
\*   nsi  upper_state.NuclearSpinIsomerName (NULL when the state names none)
\*   org  the state NuclearSpinIsomerLowestEnergy is in result.data['States']
\*   vib  vibrational state label of the two states (NULL when empty)
\*   hfs  the ProcessClass entry starting with 'hyp' (NULL when there is none)
\*   E    lower_state.StateEnergyValue
Trans(sp, st, unc, wt, ea, nsi, org, vib, hfs, E) ==
    [sp |-> sp, st |-> st, unc |-> unc, wt |-> wt, ea |-> ea, nsi |-> nsi,
     org |-> org, vib |-> vib, hfs |-> hfs, E |-> E]

Good(sp, nsi, vib, hfs, E) ==
    Trans(sp, TRUE, "num", "num", "num", nsi, TRUE, vib, hfs, E)

\* StateEnergyValue of the reference state of a nuclear-spin isomer
NsiOffset == 100

\* The transitions a node may serve for species sp
Shapes(sp) ==
    { Good(sp, NULL, NULL, NULL, 50),
      Good(sp, NULL, "v1", NULL, 53),
      Good(sp, NULL, "v1", "hyp1", 50),
      Good(sp, "ortho", NULL, NULL, 53),
      Trans(sp, TRUE, "num", "num", "num", "ortho", FALSE, NULL, NULL, 50),
      Trans(sp, FALSE, "num", "num", "num", NULL, TRUE, NULL, NULL, 50),
      Trans(sp, TRUE, "none", "num", "num", NULL, TRUE, NULL, NULL, 50),
      Trans(sp, TRUE, "bad", "num", "num", NULL, TRUE, NULL, NULL, 50),
      Trans(sp, TRUE, "num", "bad", "num", NULL, TRUE, NULL, NULL, 50),
      Trans(sp, TRUE, "num", "num", "bad", NULL, TRUE, NULL, NULL, 50) }

AllShapes == UNION {Shapes(sp) : sp \in Species}

\* The species a node serves: kind, VAMDCSpeciesID, OrdinaryStructuralFormula
\* (or atom name), the nuclear-spin isomers of its PartitionFunction blocks,
\* and the grid temperatures at which calculate_partitionfunction fails on
\* the states of an atom
\* (a node also has the isomers pfbad whose PartitionFunction blocks hold a
\* value that is not a number, the revision rev of its data, the date mod
\* at which it last modified each species, and the species ahead that it
\* has modified since their data were last fetched)
Catalogues ==
    { [kind |-> [s \in Species |-> "mol"],
       vs   |-> [s \in Species |-> "V1"],
       form |-> [s \in Species |-> "f1"],
       pfn  |-> [s \in Species |-> {""}],
       calcfail |-> {}],
      [kind |-> [s \in Species |-> IF s = "A" THEN "mol" ELSE "atom"],
       vs   |-> [s \in Species |-> IF s = "A" THEN "V1" ELSE "V2"],
       form |-> [s \in Species |-> IF s = "A" THEN "f1" ELSE "f2"],
       pfn  |-> [s \in Species |-> IF s = "A" THEN {"", "ortho"} ELSE {}],
       calcfail |-> {}] }

SeqsUpTo(S, n) == UNION {[1..k -> S] : k \in 0..n}

\* A node whose answers may differ from one request to the next: a result
\* then holds any transitions of its species
Remotes ==
    { [kind |-> c.kind, vs |-> c.vs, form |-> c.form, pfn |-> c.pfn,
       calcfail |-> c.calcfail, fixed |-> FALSE, trans |-> <<>>, rev |-> 0,
       pfbad |-> {}, mod |-> [s \in Species |-> 0], ahead |-> {},
       how |-> "primary"] :
        c \in Catalogues }

FixedShapes ==
    { Good("A", NULL, NULL, NULL, 50),
      Good("A", NULL, "v1", NULL, 53),
      Trans("A", TRUE, "none", "num", "num", NULL, TRUE, NULL, NULL, 50),
      Good("B", NULL, NULL, NULL, 50) }

\* A node that is the same throughout: it holds the transitions trans, and
\* answers every data request in the same way (how)
FixedRemotes ==
    { [kind |-> c.kind, vs |-> c.vs, form |-> c.form, pfn |-> c.pfn,
       calcfail |-> c.calcfail, fixed |-> TRUE, trans |-> t, rev |-> 0,
       pfbad |-> {}, mod |-> [s \in Species |-> 0], ahead |-> {},
       how |-> h] :
        c \in Catalogues, t \in SeqsUpTo(FixedShapes, MaxTrans),
        h \in {"primary", "fallback"} }

\* PartitionFunction value the node supplies for an isomer at a grid
\* temperature, in the revision rev of its data
RemotePF(nsi, T) == (IF nsi = "" THEN 10 ELSE 20) + T + 40 * remote.rev

Molecules(r) == {s \in Species : r.kind[s] = "mol"}
Atoms(r) == {s \in Species : r.kind[s] = "atom"}

-----------------------------------------------------------------------------
(* The sqlite connection *)

\* datetime.now(): the number of the running call
Now == Len(hist)

\* A row of Partitionfunctions (PF_SpeciesID, PF_NuclearSpinIsomer, PF_VibState,
\* PF_HFS, PF_Status, the PF_<T> fields, PF_Name, PF_UUID, PF_Checkdate);
\* PF_VamdcSpeciesID is always the node's VAMDCSpeciesID of PF_SpeciesID and is
\* read from the node.
PFRow(sid, nsi, vib, hfs, status, pf, name, uuid, chk) ==
    [sid |-> sid, nsi |-> nsi, vib |-> vib, hfs |-> hfs, status |-> status,
     pf |-> pf, name |-> name, uuid |-> uuid, chk |-> chk]

\* A row of Transitions (T_PF_ID, T_Name, T_EnergyLower, T_HFS), and where it
\* came from: the key (sidx) it was imported for and the call that stored it.
TRow(pf_id, name, energy, hfs, key, run) ==
    [pf_id |-> pf_id, name |-> name, energy |-> energy, hfs |-> hfs,
     key |-> key, run |-> run]

EmptyTable == [i \in {} |-> 0]

NoPF == [T \in Grid |-> PFNULL]

\* rowid of an INTEGER PRIMARY KEY table: one more than the largest in use
NextRowid(tbl) == IF DOMAIN tbl = {} THEN 1 ELSE Max(DOMAIN tbl) + 1

Without(tbl, ids) == [i \in DOMAIN tbl \ ids |-> tbl[i]]

Commit(st) == [st EXCEPT !.cPF = st.PF, !.cTR = st.TR, !.txn = FALSE]

Rollback(st) == [st EXCEPT !.PF = st.cPF, !.TR = st.cTR, !.txn = FALSE]

InsertPF(st, row) ==
    LET id == NextRowid(st.PF)
    IN  [st EXCEPT !.PF = (id :> row) @@ st.PF, !.last = id]

InsertTR(st, row) ==
    LET id == NextRowid(st.TR)
    IN  [st EXCEPT !.TR = (id :> row) @@ st.TR, !.last = id]

RowsOf(st, sid) == {i \in DOMAIN st.PF : st.PF[i].sid = sid}

\* the statement writes 'new' whatever pfrow.status is, and no PF_<T> field
db_insert_partitionfunction(st, pfrow, commit) ==
    LET s1 == InsertPF(st, [pfrow EXCEPT !.status = "new", !.pf = NoPF,
                                         !.uuid = 0, !.chk = Now])
    IN  IF commit THEN Commit(s1) ELSE s1

Min(S) == CHOOSE x \in S : \A y \in S : x <= y

\* INSERT ... SELECT ... WHERE PF_SpeciesID=? AND IFNULL(nsi,'')=IFNULL(?,'')
\* LIMIT 1: the table is scanned in rowid order.  With no such row nothing is
\* inserted and cursor.lastrowid is the connection's last_insert_rowid.
DuplicateBases(st, species_id, nsi) ==
    {i \in RowsOf(st, species_id) : IFNULL(st.PF[i].nsi) = IFNULL(nsi)}

\* doublicate_pf_entry_for_hfs without the PF_<T> fields in its column lists
doublicate_without_pf(st, species_id, name, nsi, state, hfs) ==
    LET bases == DuplicateBases(st, species_id, nsi)
        s1 == IF bases = {} THEN st
              ELSE InsertPF(st, [st.PF[Min(bases)] EXCEPT !.hfs = hfs,
                                                          !.vib = state,
                                                          !.uuid = 0,
                                                          !.pf = NoPF])
    IN  Commit(s1)

doublicate_pf_entry_for_hfs(st, species_id, name, nsi, state, hfs) ==
    LET bases == DuplicateBases(st, species_id, nsi)
        s1 == IF bases = {} THEN st
              ELSE InsertPF(st, [st.PF[Min(bases)] EXCEPT !.hfs = hfs,
                                                          !.vib = state,
                                                          !.uuid = 0])
    IN  Commit(s1)

set_status(st, species_id, status, db_id) ==
    IF status \notin STATI THEN st
    ELSE LET hit == IF db_id # NoId THEN {db_id} \cap DOMAIN st.PF
                    ELSE RowsOf(st, species_id)
         IN  Commit([st EXCEPT !.PF = [i \in DOMAIN st.PF |->
                        IF i \in hit THEN [st.PF[i] EXCEPT !.status = status,
                                                            !.chk = Now]
                        ELSE st.PF[i]]])

set_uuid(st, id, uuid) ==
    IF uuid = 0 THEN st
    ELSE Commit([st EXCEPT !.PF = [i \in DOMAIN st.PF |->
                    IF i = id THEN [st.PF[i] EXCEPT !.uuid = uuid]
                    ELSE st.PF[i]]])

\* update_pf_state with an UPDATE that matches no row
update_pf_state_lost(st, id, state, hfs, commit) ==
    IF commit THEN Commit(st) ELSE st

update_pf_state(st, id, state, hfs, commit) ==
    LET s1 == [st EXCEPT !.PF = [i \in DOMAIN st.PF |->
                    IF i = id THEN [st.PF[i] EXCEPT !.vib = state, !.hfs = hfs]
                    ELSE st.PF[i]]]
    IN  IF commit THEN Commit(s1) ELSE s1

update_partitionfunction_by_id(st, id, temperature, value, commit) ==
    LET s1 == [st EXCEPT !.PF = [i \in DOMAIN st.PF |->
                    IF i = id THEN [st.PF[i] EXCEPT !.pf[temperature] = value]
                    ELSE st.PF[i]]]
    IN  IF commit THEN Commit(s1) ELSE s1

update_partitionfunction(st, id, temperature, value, nsi) ==
    [st EXCEPT !.PF = [i \in DOMAIN st.PF |->
        IF st.PF[i].sid = id /\ IFNULL(st.PF[i].nsi) = nsi
        THEN [st.PF[i] EXCEPT !.pf[temperature] = value]
        ELSE st.PF[i]]]

\* DELETE FROM Transitions WHERE T_PF_ID in (SELECT PF_ID FROM
\* Partitionfunctions WHERE PF_SpeciesID = ? AND PF_Status = 'Updating')
DeleteUpdatingTransitions(st, sid) ==
    LET owners == {i \in RowsOf(st, sid) : st.PF[i].status = "Updating"}
    IN  [st EXCEPT !.TR = Without(st.TR,
                      {t \in DOMAIN st.TR : st.TR[t].pf_id \in owners})]

-----------------------------------------------------------------------------
(* Handler state *)

\* a Python name or attribute that is not bound yet
Unbound == -1

NoTrans == Good("A", NULL, NULL, NULL, 0)

NoLoc ==
    [force   |-> FALSE,       \* update_species_data: force_update
     pending |-> {},          \* species_dict (species still to fetch), or the
                              \* species check_for_new_species has not visited
     sdi     |-> EmptyTable,  \* species_dict_id: sidx -> PF_ID, or -1
     swe     |-> {},          \* species_with_error
     why     |-> EmptyTable,  \* what put each of them there
     cur     |-> NULL,        \* species_id of the group in progress
     res     |-> {},          \* species_data: the species of the result
     ismol   |-> FALSE,       \* is_molecule
     trs     |-> <<>>,        \* result.data['RadiativeTransitions'], as places
                              \* in the list of a node with fixed transitions
     ti      |-> 0,           \* counter_transitions + 1
     t       |-> NoTrans,     \* the transition being imported
     nq      |-> <<>>,        \* nsinames not yet imported for that transition
     tpk     |-> <<>>,        \* transitions_processed: its keys in order
     tpn     |-> EmptyTable,  \* transitions_processed: the counts
     rows    |-> <<>>,        \* rows (cursor.fetchall()) still to visit
     lm      |-> Unbound,     \* request.lastmodified
     ans     |-> "",          \* the exception getlastmodified raised, if any
     head    |-> [kind |-> "", date |-> 0],
                              \* the answer to the head request in progress
     upd     |-> FALSE,       \* update_database: update_only
     del     |-> FALSE,       \* update_database: delete_archived
     black   |-> <<>>]        \* insert_species_data: names_black_list

\* The committed catalogue as a run leaves it: the identity and the
\* partition function of every row, and how many transitions it owns
Snapshot(st) ==
    [PF |-> [i \in DOMAIN st.cPF |->
                <<st.cPF[i].sid, IFNULL(st.cPF[i].nsi), IFNULL(st.cPF[i].vib),
                  IFNULL(st.cPF[i].hfs), st.cPF[i].pf>>],
     n  |-> [i \in DOMAIN st.cPF |->
                Cardinality({t \in DOMAIN st.cTR : st.cTR[t].pf_id = i})]]

NoSnapshot == [PF |-> EmptyTable, n |-> EmptyTable]

Call(op, force) ==
    [op |-> op, force |-> force, raised |-> FALSE, after |-> NoSnapshot]

Raised(h) == [h EXCEPT ![Len(h)].raised = TRUE]

\* The call log when the running call returns; the catalogue it leaves is
\* kept for a node that is the same throughout
Returned(h, st) ==
    IF remote.fixed THEN [h EXCEPT ![Len(h)].after = Snapshot(st)] ELSE h

\* An uncaught exception ends the script: the connection is closed without a
\* commit, and the next call runs on a new connection.
Abort(st) == [Rollback(st) EXCEPT !.last = 0]

InitWith(nodes) ==
    /\ remote \in nodes
    /\ store = [PF |-> EmptyTable, TR |-> EmptyTable, last |-> 0,
                cPF |-> EmptyTable, cTR |-> EmptyTable, txn |-> FALSE]
    /\ pc = "idle"
    /\ loc = NoLoc
    /\ hist = <<>>
    /\ served = 0

Init == InitWith(Remotes)

InitFixed == InitWith(FixedRemotes)

CallBound == IF remote.fixed THEN MaxCallsFixed ELSE MaxCalls

-----------------------------------------------------------------------------
(* check_for_new_species *)

NsiOrder == <<"", "ortho">>

\* lines 717-743, for the PartitionFunction blocks from place i on
RECURSIVE ImportIsomers(_, _, _, _)
ImportIsomers(st, r, species_id, i) ==
    IF i > Len(NsiOrder) THEN st
    ELSE IF NsiOrder[i] \notin r.pfn[species_id]
         THEN ImportIsomers(st, r, species_id, i + 1)
    ELSE LET nsi == NsiOrder[i]
             row == PFRow(species_id, nsi, NULL, NULL, NULL, NoPF,
                          make_name(<<r.form[species_id]>>, nsi, NULL, NULL),
                          0, 0)
             s1 == db_insert_partitionfunction(st, row, FALSE)
             id == s1.last
             s2 == [s1 EXCEPT !.PF[id].pf = [T \in Grid |-> RemotePF(nsi, T)]]
         IN  IF nsi \in r.pfbad
             THEN \* float() of a value raises ValueError: lines 744-745
                  ImportIsomers(Rollback(s1), r, species_id, i + 1)
             ELSE ImportIsomers(Commit(s2), r, species_id, i + 1)

\* one species_id of the loop without the test of lines 650-653
ImportNewSpeciesAgain(st, r, species_id) ==
    IF species_id \in Atoms(r)
    THEN Commit(db_insert_partitionfunction(st,
             PFRow(species_id, NULL, NULL, NULL, NULL, NoPF,
                   make_name(<<r.form[species_id]>>, NULL, NULL, NULL),
                   0, 0),
             FALSE))
    ELSE ImportIsomers(st, r, species_id, 1)

\* lines 648-756, one species_id of the loop
ImportNewSpecies(st, r, species_id) ==
    IF RowsOf(st, species_id) # {} THEN st
    ELSE IF species_id \in Atoms(r)
         THEN Commit(db_insert_partitionfunction(st,
                  PFRow(species_id, NULL, NULL, NULL, NULL, NoPF,
                        make_name(<<r.form[species_id]>>, NULL, NULL, NULL),
                        0, 0),
                  FALSE))
    ELSE ImportIsomers(st, r, species_id, 1)

CallCheckForNewSpecies ==
    /\ pc = "idle"
    /\ Len(hist) < CallBound
    /\ pc' = "cfns"
    /\ loc' = [NoLoc EXCEPT !.pending = Species]
    /\ hist' = Append(hist, Call("check_for_new_species", FALSE))
    /\ UNCHANGED <<remote, store, served>>

\* the loop visits the species ids in the order of a Python set
CfnsSpecies ==
    /\ pc = "cfns"
    /\ \E s \in loc.pending :
        /\ store' = ImportNewSpecies(store, remote, s)
        /\ IF loc.pending = {s}
           THEN pc' = "idle" /\ loc' = NoLoc /\ hist' = Returned(hist, store')
           ELSE pc' = pc /\ loc' = [loc EXCEPT !.pending = @ \ {s}]
                /\ hist' = hist
    /\ UNCHANGED <<remote, served>>

-----------------------------------------------------------------------------
(* update_species_data *)

\* str.lower() of a status
Lower(status) ==
    CASE status = "New" -> "new"
      [] status = "Update Available" -> "update available"
      [] status = "Update Failed" -> "update failed"
      [] status = "Updating" -> "updating"
      [] status = "Up-To-Date" -> "up-to-date"
      [] status = "Outdated" -> "outdated"
      [] status = "Keep" -> "keep"
      [] OTHER -> status

\* lines 903-905
Eligible(row, force_update) ==
    force_update \/ Lower(row.status) \in
        {"new", "update available", "update failed", "updating"}

\* lines 878-890
KeyOf(row) ==
    <<row.sid, NoneIfEmpty(row.nsi), NoneIfEmpty(row.vib), NoneIfEmpty(row.hfs)>>

\* lines 872-918: the rows come ordered by (PF_VamdcSpeciesID, PF_SpeciesID),
\* rows of one species in rowid order, and a later row replaces an earlier
\* one with the same sidx
BuildSpeciesDictId(st, force_update) ==
    LET keys == {KeyOf(st.PF[i]) : i \in DOMAIN st.PF}
        lastOf(k) == Max({i \in DOMAIN st.PF : KeyOf(st.PF[i]) = k})
    IN  [k \in keys |-> IF Eligible(st.PF[lastOf(k)], force_update)
                        THEN lastOf(k) ELSE -1]

\* species_dict filled for every row, whatever its status
BuildSpeciesDictAll(st, force_update) ==
    {st.PF[i].sid : i \in DOMAIN st.PF}

BuildSpeciesDict(st, force_update) ==
    {st.PF[i].sid : i \in {j \in DOMAIN st.PF : Eligible(st.PF[j], force_update)}}

CallUpdateSpeciesData ==
    /\ pc = "idle"
    /\ Len(hist) < CallBound
    /\ \E force_update \in BOOLEAN :
        LET species_dict == BuildSpeciesDict(store, force_update)
            h == Append(hist, Call("update_species_data", force_update))
        IN  /\ IF ~force_update /\ \E i \in DOMAIN store.PF :
                                        store.PF[i].status = NULL
               THEN \* None.lower() raises AttributeError
                    pc' = "idle" /\ loc' = NoLoc /\ hist' = Raised(h)
               ELSE IF species_dict = {}
               THEN pc' = "idle" /\ loc' = NoLoc /\ hist' = Returned(h, store)
               ELSE /\ pc' = "usd_loop"
                    /\ hist' = h
                    /\ loc' = [NoLoc EXCEPT
                                 !.force = force_update,
                                 !.pending = species_dict,
                                 !.sdi = BuildSpeciesDictId(store, force_update)]
    /\ UNCHANGED <<remote, store, served>>

\* lines 963-985 for the species ids of species_data
RECURSIVE MarkUpdating(_, _)
MarkUpdating(st, sids) ==
    IF sids = {} THEN st
    ELSE LET sid == CHOOSE x \in sids : TRUE
             s1 == [st EXCEPT !.PF = [i \in DOMAIN st.PF |->
                        IF st.PF[i].sid = sid /\ st.PF[i].status \in
                              {"New", "Update Available", "Update Failed"}
                        THEN [st.PF[i] EXCEPT !.status = "Updating"]
                        ELSE st.PF[i]]]
         IN  MarkUpdating(DeleteUpdatingTransitions(s1, sid), sids \ {sid})

\* the species of a result: the primary query serves the species asked for,
\* the query by VAMDCSpeciesID every species with that identifier
ResultSpecies(r, species_id, how) ==
    IF how = "primary" THEN {species_id}
    ELSE {s \in Species : r.vs[s] = r.vs[species_id]}

ResultTransitions(r, species) ==
    SelectSeq([k \in 1..Len(r.trans) |-> k], LAMBDA k : r.trans[k].sp \in species)

\* The transitions that can come next in the result being read
Offer ==
    IF remote.fixed
    THEN IF loc.ti <= Len(loc.trs) THEN {remote.trans[loc.trs[loc.ti]]} ELSE {}
    ELSE IF served < MaxTrans THEN {x \in AllShapes : x.sp \in loc.res} ELSE {}

\* The result being read may hold no further transition
Ended == IF remote.fixed THEN loc.ti > Len(loc.trs) ELSE TRUE

\* Leaving a species group: the while loop goes on, or the call returns
NextGroup(l) ==
    IF l.pending = {}
    THEN pc' = "idle" /\ loc' = NoLoc /\ hist' = Returned(hist, store')
    ELSE pc' = "usd_loop" /\ loc' = l /\ hist' = hist

\* How do_species_data_request can answer
Answers ==
    IF remote.fixed THEN {remote.how} ELSE {"primary", "fallback", "none"}

\* lines 927-985: do_species_data_request answers with the result of the
\* primary query, with that of the query by VAMDCSpeciesID after the primary
\* one failed, or with None after both failed
UsdFetch ==
    /\ pc = "usd_loop"
    /\ \E species_id \in loc.pending, how \in Answers :
        LET l0 == [loc EXCEPT !.pending = @ \ {species_id}]
        IN  IF how = "none"
            THEN NextGroup(l0) /\ UNCHANGED <<store, remote>>
            ELSE LET species_data == ResultSpecies(remote, species_id, how)
                 IN  /\ store' = Commit(MarkUpdating(store, species_data))
                     /\ pc' = "usd_trans"
                     /\ hist' = hist
                     /\ remote' = [remote EXCEPT !.ahead = @ \ species_data]
                     /\ loc' = [l0 EXCEPT
                            !.pending = @ \ species_data,
                            !.cur = species_id,
                            !.res = species_data,
                            !.ismol = (remote.kind[species_id] = "mol"),
                            !.trs = ResultTransitions(remote, species_data),
                            !.ti = 1, !.nq = <<>>,
                            !.tpk = <<>>, !.tpn = EmptyTable]
    /\ UNCHANGED served

Fail(t, cause) == [loc EXCEPT !.swe = @ \cup {t.sp},
                              !.why = (t.sp :> cause) @@ @,
                              !.ti = @ + 1]

\* the checks without the one of lines 1006-1007 (species_with_error)
UsdTransitionNoSkip ==
    /\ pc = "usd_trans"
    /\ loc.nq = <<>>
    /\ \E t \in Offer :
           IF t.unc = "bad" /\ t.sp \notin loc.swe /\ t.st
           THEN \* float() raises ValueError, which no handler catches
                /\ store' = Abort(store)
                /\ pc' = "idle" /\ loc' = NoLoc
                /\ hist' = Raised(hist)
           ELSE /\ loc' = IF ~t.st THEN Fail(t, "state")
                          ELSE IF t.unc = "none" THEN Fail(t, "uncertainty")
                          ELSE IF t.wt = "bad" THEN Fail(t, "weight")
                          ELSE IF t.nsi # NULL /\ t.nsi # ""
                               THEN IF ~t.org THEN Fail(t, "origin")
                                    ELSE [loc EXCEPT !.t = t, !.nq = <<t.nsi, NULL>>]
                          ELSE [loc EXCEPT !.t = t, !.nq = <<NULL>>]
                /\ UNCHANGED <<store, pc, hist>>
    /\ served' = IF remote.fixed THEN served ELSE served + 1
    /\ UNCHANGED remote

\* lines 1002-1082: the checks made before a transition is imported
UsdTransition ==
    /\ pc = "usd_trans"
    /\ loc.nq = <<>>
    /\ \E t \in Offer :
           IF t.unc = "bad" /\ t.sp \notin loc.swe /\ t.st
           THEN \* float() raises ValueError, which no handler catches
                /\ store' = Abort(store)
                /\ pc' = "idle" /\ loc' = NoLoc
                /\ hist' = Raised(hist)
           ELSE /\ loc' = IF t.sp \in loc.swe THEN [loc EXCEPT !.ti = @ + 1]
                          ELSE IF ~t.st THEN Fail(t, "state")
                          ELSE IF t.unc = "none" THEN Fail(t, "uncertainty")
                          ELSE IF t.wt = "bad" THEN Fail(t, "weight")
                          ELSE IF t.nsi # NULL /\ t.nsi # ""
                               THEN IF ~t.org THEN Fail(t, "origin")
                                    ELSE [loc EXCEPT !.t = t, !.nq = <<t.nsi, NULL>>]
                          ELSE [loc EXCEPT !.t = t, !.nq = <<NULL>>]
                /\ UNCHANGED <<store, pc, hist>>
    /\ served' = IF remote.fixed THEN served ELSE served + 1
    /\ UNCHANGED remote

\* lines 1106-1141: the PF_ID for sidx.  The answer holds the connection, the
\* look-up table and db_id.
Resolved(st, sdi, db_id) == [st |-> st, sdi |-> sdi, db_id |-> db_id]

DropKey(f, k) == [x \in DOMAIN f \ {k} |-> f[x]]

Resolve(st, sdi, species_id, sidx) ==
    LET placeholder == <<sidx[1], sidx[2], NULL, NULL>>
    IN  IF sidx \in DOMAIN sdi THEN Resolved(st, sdi, sdi[sidx])
        ELSE IF placeholder \in DOMAIN sdi
        THEN LET db_id == sdi[placeholder]
             IN  IF db_id > 0
                 THEN Resolved(update_pf_state(st, db_id, sidx[3], sidx[4], TRUE),
                               (sidx :> db_id) @@ DropKey(sdi, placeholder),
                               db_id)
                 ELSE Resolved(st, sdi, db_id)
        ELSE LET s1 == doublicate_pf_entry_for_hfs(st, species_id, sidx[1],
                                                   sidx[2], sidx[3], sidx[4])
             IN  Resolved(s1, (sidx :> s1.last) @@ sdi, s1.last)

\* lines 1093-1099 without the offset of the isomer
EnergyWithoutOffset(t, nsiName) == t.E

\* lines 1093-1099
LowerStateEnergy(t, nsiName) ==
    IF nsiName # NULL THEN t.E - NsiOffset ELSE t.E

\* lines 1084-1179: one pass of the loop over nsinames
UsdImport ==
    /\ pc = "usd_trans"
    /\ loc.nq # <<>>
    /\ LET t == loc.t
           nsiName == Head(loc.nq)
           t_state == IF loc.ismol THEN NoneIfEmpty(t.vib) ELSE NULL
           t_hfs == t.hfs
           t_name == <<remote.form[loc.cur]>>
           sidx == <<t.sp, nsiName, t_state, t_hfs>>
           seen == sidx \in DOMAIN loc.tpn
           tpn0 == IF seen THEN loc.tpn ELSE (sidx :> 0) @@ loc.tpn
           lower_state_energy == LowerStateEnergy(t, nsiName)
           r == Resolve(store, loc.sdi, loc.cur, sidx)
           stored == r.db_id >= 0 /\ t.ea = "num"
           row == TRow(r.db_id, make_name(t_name, nsiName, t_state, t_hfs),
                       Fmt6(lower_state_energy), t_hfs,
                       sidx, Len(hist))
       IN  /\ store' = IF stored THEN InsertTR(r.st, row) ELSE r.st
           /\ loc' = [loc EXCEPT
                        !.sdi = r.sdi,
                        !.tpk = IF seen THEN @ ELSE Append(@, sidx),
                        !.tpn = IF stored THEN [tpn0 EXCEPT ![sidx] = @ + 1]
                                ELSE tpn0,
                        !.nq = Tail(@),
                        !.t = IF Len(loc.nq) = 1 THEN NoTrans ELSE @,
                        !.ti = IF Len(loc.nq) = 1 THEN @ + 1 ELSE @]
    /\ UNCHANGED <<remote, pc, hist, served>>

\* Value calculate_partitionfunction gives for an atom at a grid temperature
AtomPF(T) == 30 + T

\* lines 2063-2074 from temperature T on; pf_values is Unbound until a
\* calculation has succeeded.  The answer holds the connection and whether
\* the read of the unbound pf_values raised.
RECURSIVE CalculateLoop(_, _, _, _, _)
CalculateLoop(st, id, T, pf_values, fails) ==
    IF T > NumTemps THEN [st |-> st, raised |-> FALSE]
    ELSE LET v == IF T \in fails THEN pf_values ELSE AtomPF(T)
         IN  IF v = Unbound THEN [st |-> st, raised |-> TRUE]
             ELSE CalculateLoop(update_partitionfunction(st, id, T, v, ""),
                                id, T + 1, v, fails)

\* lines 2077-2092 for the PartitionFunction blocks from place i on
RECURSIVE CopyLoop(_, _, _, _)
CopyLoop(st, r, id, i) ==
    IF i > Len(NsiOrder) THEN st
    ELSE IF NsiOrder[i] \notin r.pfn[id] THEN CopyLoop(st, r, id, i + 1)
    ELSE LET nsi == NsiOrder[i]
             s1 == [st EXCEPT !.PF = [j \in DOMAIN st.PF |->
                        IF st.PF[j].sid = id /\ IFNULL(st.PF[j].nsi) = nsi
                        THEN [st.PF[j] EXCEPT !.pf = [T \in Grid |-> RemotePF(nsi, T)]]
                        ELSE st.PF[j]]]
         IN  CopyLoop(s1, r, id, i + 1)

parse_and_update_partitionfunctions(st, r, id) ==
    IF id \in Molecules(r) THEN [st |-> CopyLoop(st, r, id, 1), raised |-> FALSE]
    ELSE CalculateLoop(st, id, 1, Unbound, r.calcfail)

\* lines 1186-1198 for the species of species_with_error
RECURSIVE FailSpecies(_, _)
FailSpecies(st, ids) ==
    IF ids = {} THEN st
    ELSE LET id == CHOOSE x \in ids : TRUE
         IN  FailSpecies(set_status(DeleteUpdatingTransitions(st, id),
                                    id, "Update Failed", NoId),
                         ids \ {id})

\* lines 1211-1225 from the i-th key of transitions_processed on; the answer
\* holds the connection and whether species_dict_id[sidx] raised KeyError
RECURSIVE FinalLoop(_, _, _, _)
FinalLoop(st, l, uuid, i) ==
    IF i > Len(l.tpk) THEN [st |-> st, raised |-> FALSE]
    ELSE LET sidx == l.tpk[i]
         IN  IF sidx[1] \in l.swe THEN FinalLoop(st, l, uuid, i + 1)
             ELSE IF sidx \notin DOMAIN l.sdi THEN [st |-> st, raised |-> TRUE]
             ELSE LET db_id == l.sdi[sidx]
                      s1 == set_uuid(st, db_id, uuid)
                      s2 == set_status(s1, sidx[1], "Up-To-Date", db_id)
                  IN  FinalLoop(s2, l, uuid, i + 1)

\* lines 1186-1227: the end of a species group
UsdFinish ==
    /\ pc = "usd_trans"
    /\ loc.nq = <<>>
    /\ Ended
    /\ LET s1 == FailSpecies(store, loc.swe)
           p  == IF ~loc.ismol /\ loc.cur \in loc.res
                 THEN parse_and_update_partitionfunctions(s1, remote, loc.cur)
                 ELSE [st |-> s1, raised |-> FALSE]
           f  == FinalLoop(p.st, loc, Len(hist), 1)
       IN  IF p.raised \/ f.raised
           THEN /\ store' = Abort(IF p.raised THEN p.st ELSE f.st)
                /\ pc' = "idle" /\ loc' = NoLoc
                /\ hist' = Raised(hist)
           ELSE /\ store' = Commit(f.st)
                /\ NextGroup([loc EXCEPT !.cur = NULL, !.res = {}, !.trs = <<>>,
                                         !.ti = 0, !.tpk = <<>>,
                                         !.tpn = EmptyTable])
    /\ UNCHANGED <<remote, served>>

-----------------------------------------------------------------------------
(* Request.getlastmodified *)

\* self.lastmodified = None
NoDate == -2

\* How a head request can be answered: with a timeout, with status 204, with
\* a failure of another kind, with another status and no Last-Modified
\* header, with a Last-Modified header that cannot be parsed, or with one
\* that holds a date
HeadAnswer(kind, date) == [kind |-> kind, date |-> date]

HeadAnswers ==
    {HeadAnswer(k, 0) :
        k \in {"timeout", "nocontent", "error", "nodate", "unparsable"}}
    \cup {HeadAnswer("date", d) :
              d \in {0, Now} \cup {remote.mod[s] : s \in Species}}

\* lm is self.lastmodified before the call; the answer holds the exception
\* raised ("" for none) and self.lastmodified after the call, which is also
\* the value returned
getlastmodified(lm, a) ==
    CASE a.kind = "timeout"    -> [raised |-> "TimeOutError", lm |-> lm]
      [] a.kind = "nocontent"  -> [raised |-> "NoContentError", lm |-> lm]
      [] a.kind = "error"      -> [raised |-> "Exception", lm |-> lm]
      [] a.kind = "nodate"     -> [raised |-> "", lm |-> NoDate]
      [] a.kind = "date"       -> [raised |-> "", lm |-> a.date]
      [] a.kind = "unparsable" ->
            IF lm = Unbound THEN [raised |-> "Exception", lm |-> lm]
            ELSE [raised |-> "", lm |-> lm]

-----------------------------------------------------------------------------
(* check_for_updates *)

RECURSIVE Ascending(_)
Ascending(S) ==
    IF S = {} THEN <<>> ELSE <<Min(S)>> \o Ascending(S \ {Min(S)})

\* rows = cursor.fetchall(): what a freshness check reads of every row
\* before its loop starts
RowsRead(st) ==
    LET ids == Ascending(DOMAIN st.PF)
    IN  [k \in 1..Len(ids) |-> [sid |-> st.PF[ids[k]].sid,
                                chk |-> st.PF[ids[k]].chk,
                                status |-> st.PF[ids[k]].status]]

\* Leaving a handler
Return(st) == pc' = "idle" /\ loc' = NoLoc /\ hist' = Returned(hist, st)

CallCheckForUpdates ==
    /\ pc = "idle"
    /\ Len(hist) < CallBound
    /\ LET h == Append(hist, Call("check_for_updates", FALSE))
           rows == RowsRead(store)
       IN  IF rows = <<>>
           THEN pc' = "idle" /\ loc' = NoLoc /\ hist' = Returned(h, store)
           ELSE pc' = "cfu" /\ loc' = [NoLoc EXCEPT !.rows = rows] /\ hist' = h
    /\ UNCHANGED <<remote, store, served>>

\* lines 601-613
FreshnessStatus(row, changedate) ==
    IF row.chk < changedate \/ row.status = "Update Available"
    THEN "Update Available"
    ELSE IF row.status = "Up-To-Date" THEN "Up-To-Date"
    ELSE "Update Available"

\* lines 569-577: the head request for the species of the next row
CfuHead ==
    /\ pc = "cfu"
    /\ \E a \in HeadAnswers :
        LET g == getlastmodified(loc.lm, a)
        IN  loc' = [loc EXCEPT !.ans = g.raised, !.lm = g.lm, !.head = a]
    /\ pc' = "cfu_row"
    /\ UNCHANGED <<remote, store, hist, served>>

\* the loop of check_for_updates with a timeout handled as a 204 answer is
CfuRowTimeoutOutdated ==
    /\ pc = "cfu_row"
    /\ LET row == Head(loc.rows)
       IN  /\ store' =
                 IF loc.ans \in {"NoContentError", "TimeOutError"}
                 THEN set_status(store, row.sid, "Outdated", NoId)
                 ELSE IF loc.ans # "" \/ loc.lm = NoDate THEN store
                 ELSE set_status(store, row.sid,
                                 FreshnessStatus(row, loc.lm), NoId)
           /\ IF Len(loc.rows) = 1 THEN Return(store')
              ELSE /\ pc' = "cfu"
                   /\ loc' = [loc EXCEPT !.rows = Tail(@), !.ans = "", !.head = NoLoc.head]
                   /\ hist' = hist
    /\ UNCHANGED <<remote, served>>

\* lines 578-613: what the loop does with the answer
CfuRow ==
    /\ pc = "cfu_row"
    /\ LET row == Head(loc.rows)
       IN  /\ store' =
                 IF loc.ans = "NoContentError"
                 THEN set_status(store, row.sid, "Outdated", NoId)
                 ELSE IF loc.ans # "" \/ loc.lm = NoDate THEN store
                 ELSE set_status(store, row.sid,
                                 FreshnessStatus(row, loc.lm), NoId)
           /\ IF Len(loc.rows) = 1 THEN Return(store')
              ELSE /\ pc' = "cfu"
                   /\ loc' = [loc EXCEPT !.rows = Tail(@), !.ans = "", !.head = NoLoc.head]
                   /\ hist' = hist
    /\ UNCHANGED <<remote, served>>

-----------------------------------------------------------------------------
(* delete_species, insert_species_data *)

\* the answer holds the connection and deleted_species
delete_species(st, speciesid) ==
    LET ids == Ascending(RowsOf(st, speciesid))
        deleted_species == [k \in 1..Len(ids) |-> st.PF[ids[k]].name]
        names == SeqToSet(deleted_species)
    IN  [st |-> Commit([st EXCEPT
                  !.TR = Without(@, {t \in DOMAIN st.TR : st.TR[t].name \in names}),
                  !.PF = Without(@, {i \in DOMAIN st.PF : st.PF[i].name \in names})]),
         names |-> deleted_species]

\* list.remove(x): the list without the first x
RemoveFirst(seq, x) ==
    LET at == Min({k \in 1..Len(seq) : seq[k] = x})
    IN  SubSeq(seq, 1, at - 1) \o SubSeq(seq, at + 1, Len(seq))

RECURSIVE RemoveEach(_, _)
RemoveEach(seq, xs) ==
    IF xs = <<>> THEN seq ELSE RemoveEach(RemoveFirst(seq, Head(xs)), Tail(xs))

\* "#%d" % i
Hash == <<"#1", "#2", "#3">>

\* lines 1879-1888: "%s;%s;%s" % (formula, t_state, t_affix)
LegacyName(formula, t_state, t_hfs, nsi) ==
    LET affix == Segment(t_hfs) \o Segment(nsi)
    IN  <<formula, IFNULL(t_state)>> \o (IF affix = <<>> THEN <<"">> ELSE affix)

\* t_name.split('#')[0]
Base(name) ==
    IF name[Len(name)] \in SeqToSet(Hash) THEN SubSeq(name, 1, Len(name) - 1)
    ELSE name

\* lines 1891-1894: the name with the first counter that makes it new
RECURSIVE Numbered(_, _, _)
Numbered(name, black, i) ==
    IF name \notin SeqToSet(black) \/ i > Len(Hash) THEN name
    ELSE Numbered(Append(Base(name), Hash[i]), black, i + 1)

\* lines 1977-1989: hfs and nsi read back from a name
RECURSIVE AffixLoop(_, _, _, _)
AffixLoop(segs, k, hfs, nsi) ==
    IF k > Len(segs) THEN [hfs |-> hfs, nsi |-> nsi]
    ELSE IF segs[k] = "hyp1" THEN AffixLoop(segs, k + 1, segs[k], nsi)
    ELSE AffixLoop(segs, k + 1, hfs, segs[k])

\* lines 1774-1940 from the i-th transition of the result on, for the species
\* id.  The answer holds the connection, species_names[id], whether id is in
\* species_with_error, and whether an exception left the loop.
RECURSIVE LegacyLoop(_, _, _, _, _, _, _, _)
LegacyLoop(st, form, id, ts, i, names, failed, black) ==
    IF i > Len(ts)
    THEN [st |-> st, names |-> names, failed |-> failed, raised |-> FALSE]
    ELSE LET t == ts[i]
             skip == LegacyLoop(st, form, id, ts, i + 1, names, failed, black)
             fail == LegacyLoop(st, form, id, ts, i + 1, names, TRUE, black)
             nsinames == IF t.nsi # NULL /\ t.nsi # ""
                         THEN <<t.nsi, NULL>> ELSE <<NULL>>
             name1 == Numbered(LegacyName(form, t.vib, t.hfs, nsinames[1]),
                               black, 1)
             name2 == Numbered(LegacyName(form, t.vib, t.hfs, NULL), black, 1)
             row1 == TRow(NoId, name1,
                          Fmt6(LowerStateEnergy(t, nsinames[1])), IFNULL(t.hfs),
                          <<t.sp, nsinames[1], NoneIfEmpty(t.vib), t.hfs>>, Now)
             row2 == TRow(NoId, name2, Fmt6(LowerStateEnergy(t, NULL)),
                          IFNULL(t.hfs),
                          <<t.sp, NULL, NoneIfEmpty(t.vib), t.hfs>>, Now)
             s1 == IF t.ea = "num" THEN InsertTR(st, row1) ELSE st
             s2 == IF Len(nsinames) = 1 THEN s1
                   ELSE IF t.ea = "num" THEN InsertTR(s1, row2) ELSE s1
             n1 == IF name1 \in SeqToSet(names) THEN names
                   ELSE Append(names, name1)
             n2 == IF Len(nsinames) = 1 \/ name2 \in SeqToSet(n1) THEN n1
                   ELSE Append(n1, name2)
         IN  IF t.sp # id \/ failed THEN skip
             ELSE IF ~t.st THEN fail
             ELSE IF t.unc = "none" THEN fail
             ELSE IF t.unc = "bad" \/ (Len(nsinames) = 2 /\ ~t.org)
                  THEN IF t.unc # "bad" /\ t.wt = "bad" THEN fail
                       ELSE [st |-> st, names |-> names, failed |-> failed,
                             raised |-> TRUE]
             ELSE IF t.wt = "bad" THEN fail
             ELSE LegacyLoop(s2, form, id, ts, i + 1, n2, failed, black)

\* lines 1970-2038 for the names of species_names[id] from the k-th on
RECURSIVE LegacyRows(_, _, _, _)
LegacyRows(st, id, names, k) ==
    IF k > Len(names) THEN st
    ELSE LET name == names[k]
             segs == Base(name)
             a == AffixLoop(SubSeq(segs, 3, Len(segs)), 1, "", "")
         IN  LegacyRows(InsertPF(st, PFRow(id, a.nsi, NULL, a.hfs, NULL, NoPF,
                                           name, 0, Now)),
                        id, names, k + 1)

\* How a data request made with Request.dorequest can be answered: with a
\* result, with a timeout, or with a status other than 200
FetchAnswers == {"ok", "timeout", "none"}

\* What 'BEGIN TRANSACTION' does inside an open transaction: the sqlite3
\* module of Python 3 raises OperationalError, that of Python 2 commits first
Builds == {"py3", "py2"}

\* lines 1697-2044 for one molecule of species.  ts are the transitions of
\* the result.  The answer holds the connection and whether an exception
\* left the function.
insert_species_data(st, r, id, ts, fetch, update, black, build) ==
    IF fetch = "timeout" THEN [st |-> st, raised |-> FALSE]
    ELSE IF fetch = "none" \/ (st.txn /\ build = "py3")
    THEN [st |-> st, raised |-> TRUE]
    ELSE LET s0 == [(IF st.txn THEN Commit(st) ELSE st) EXCEPT !.txn = TRUE]
             d  == IF update THEN delete_species(s0, id)
                   ELSE [st |-> s0, names |-> <<>>]
             l  == LegacyLoop(d.st, r.form[id], id, ts, 1, <<>>, FALSE,
                              RemoveEach(black, d.names))
             s1 == [l.st EXCEPT !.txn = TRUE]
             s2 == IF l.failed
                   THEN [s1 EXCEPT !.TR = Without(@,
                            {t \in DOMAIN s1.TR :
                                s1.TR[t].name \in SeqToSet(l.names)})]
                   ELSE s1
             s3 == IF l.failed \/ l.names = <<>> THEN s2
                   ELSE CopyLoop(LegacyRows(s2, id, l.names, 1), r, id, 1)
         IN  IF l.raised THEN [st |-> s1, raised |-> TRUE]
             ELSE [st |-> Commit(s3), raised |-> FALSE]

-----------------------------------------------------------------------------
(* update_database *)

\* the transitions of a result read by insert_species_data
LegacyResults(id) ==
    SeqsUpTo(Shapes(id), Min({MaxLegacyTrans, MaxTrans - served}))

\* names_black_list: SELECT PF_Name FROM Partitionfunctions
BlackList(st) ==
    LET ids == Ascending(DOMAIN st.PF)
    IN  [k \in 1..Len(ids) |-> st.PF[ids[k]].name]

CallUpdateDatabase ==
    /\ pc = "idle"
    /\ Len(hist) < CallBound
    /\ \E update_only, delete_archived \in BOOLEAN :
        LET h == Append(hist, Call("update_database", delete_archived))
            rows == RowsRead(store)
        IN  IF rows = <<>>
            THEN pc' = "idle" /\ loc' = NoLoc /\ hist' = Returned(h, store)
            ELSE /\ pc' = "udb"
                 /\ loc' = [NoLoc EXCEPT !.rows = rows, !.upd = update_only,
                                         !.del = delete_archived]
                 /\ hist' = h
    /\ UNCHANGED <<remote, store, served>>

\* An uncaught exception leaves the running handler
Raise(st) ==
    /\ store' = Abort(st)
    /\ pc' = "idle" /\ loc' = NoLoc
    /\ hist' = Raised(hist)

\* lines 2217-2238: the head request for the species of the next row
UdbHead ==
    /\ pc = "udb"
    /\ loc.rows # <<>>
    /\ \E a \in HeadAnswers :
        LET g == getlastmodified(loc.lm, a)
        IN  loc' = [loc EXCEPT !.ans = g.raised, !.lm = g.lm, !.head = a]
    /\ pc' = "udb_row"
    /\ UNCHANGED <<remote, store, hist, served>>

\* lines 2239-2300: what the loop does with the answer
UdbRow ==
    /\ pc = "udb_row"
    /\ LET row == Head(loc.rows)
           l1 == [loc EXCEPT !.rows = Tail(@), !.ans = "", !.head = NoLoc.head]
           go(st, n) == /\ store' = st /\ served' = served + n
                        /\ pc' = "udb" /\ loc' = l1 /\ hist' = hist
       IN  IF loc.ans = "NoContentError"
            THEN go(IF loc.del THEN delete_species(store, row.sid).st
                    ELSE store, 0)
            ELSE IF loc.ans # "" \/ loc.lm = NoDate \/ ~(row.chk < loc.lm)
            THEN go(store, 0)
            ELSE \E q \in FetchAnswers :
                    IF q # "ok" THEN Raise(store) /\ UNCHANGED served
                    ELSE IF row.sid \notin Molecules(remote) THEN go(store, 0)
                    ELSE \E ts \in LegacyResults(row.sid),
                            fetch \in FetchAnswers, build \in Builds :
                            go(insert_species_data(store, remote, row.sid, ts,
                                   fetch, TRUE, BlackList(store), build).st,
                               IF fetch = "ok" THEN Len(ts) ELSE 0)
    /\ UNCHANGED remote

\* lines 2321-2355: update_only ends the call; otherwise the species of the
\* node are requested and the molecules the catalogue lacks are listed
UdbNew ==
    /\ pc = "udb"
    /\ loc.rows = <<>>
    /\ IF loc.upd THEN Return(store) /\ UNCHANGED store
       ELSE \E q \in FetchAnswers :
            IF q # "ok" THEN Raise(store)
            ELSE LET new == {id \in Molecules(remote) : RowsOf(store, id) = {}}
                 IN  /\ UNCHANGED store
                     /\ IF new = {} THEN Return(store)
                        ELSE /\ pc' = "udb_ins"
                             /\ loc' = [loc EXCEPT !.pending = new,
                                                   !.black = BlackList(store)]
                             /\ hist' = hist
    /\ UNCHANGED <<remote, served>>

\* line 2355: insert_species_data for one molecule of insert_molecules_list
UdbInsert ==
    /\ pc = "udb_ins"
    /\ \E id \in loc.pending : \E ts \in LegacyResults(id),
          fetch \in FetchAnswers, build \in Builds :
        LET i == insert_species_data(store, remote, id, ts, fetch, FALSE,
                                      loc.black, build)
        IN  /\ served' = served + (IF fetch = "ok" THEN Len(ts) ELSE 0)
            /\ IF i.raised THEN Raise(i.st)
               ELSE /\ store' = i.st
                    /\ IF loc.pending = {id} THEN Return(store')
                       ELSE /\ pc' = pc
                            /\ loc' = [loc EXCEPT !.pending = @ \ {id}]
                            /\ hist' = hist
    /\ UNCHANGED remote

-----------------------------------------------------------------------------
(* set_status, called by the operator of the catalogue *)

\* the stati an operator sets by hand
OperatorStati == {"Keep", "New"}

CallSetStatus ==
    /\ pc = "idle"
    /\ Len(hist) < CallBound
    /\ store.PF # EmptyTable
    /\ pc' = "set_status"
    /\ hist' = Append(hist, Call("set_status", FALSE))
    /\ UNCHANGED <<remote, store, loc, served>>

\* lines 483-513, for a species id and for a row id
SetStatus ==
    /\ pc = "set_status"
    /\ \E species_id \in Species, status \in OperatorStati,
          db_id \in {NoId} \cup DOMAIN store.PF :
        store' = set_status(store, species_id, status, db_id)
    /\ Return(store')
    /\ UNCHANGED <<remote, served>>

-----------------------------------------------------------------------------

Next ==
    \/ CallCheckForNewSpecies
    \/ CfnsSpecies
    \/ CallUpdateSpeciesData
    \/ UsdFetch
    \/ UsdTransition
    \/ UsdImport
    \/ UsdFinish

\* the handlers above, and the two freshness checks
NextFresh ==
    \/ Next
    \/ CallCheckForUpdates
    \/ CfuHead
    \/ CfuRow
    \/ CallUpdateDatabase
    \/ UdbHead
    \/ UdbRow
    \/ UdbNew
    \/ UdbInsert

Spec == Init /\ [][Next]_vars

SpecFixed == InitFixed /\ [][Next]_vars

SpecFresh == Init /\ [][NextFresh]_vars

\* The process is interrupted while update_species_data runs: what was not
\* committed is lost, and the next call works on a new connection
Crash ==
    /\ pc \in {"usd_loop", "usd_trans"}
    /\ store' = Abort(store)
    /\ pc' = "idle" /\ loc' = NoLoc
    /\ hist' = Raised(hist)
    /\ UNCHANGED <<remote, served>>

NextCrash == Next \/ Crash

SpecCrash == Init /\ [][NextCrash]_vars

\* update_species_data, check_for_new_species, check_for_updates, and the
\* operator's set_status
NextStatus ==
    \/ Next
    \/ CallCheckForUpdates
    \/ CfuHead
    \/ CfuRow
    \/ CallSetStatus
    \/ SetStatus

SpecStatus == Init /\ [][NextStatus]_vars

\* A catalogue with two records of one identity key, as left by these calls
\* on a node with molecules A and B under one VAMDCSpeciesID:
\* check_for_new_species(), then update_species_data() whose result for the
\* group of A holds a transition of B in state v1 and one of B in no
\* vibrational state (row 3 is the copy doublicate_pf_entry_for_hfs made of
\* row 1)
DuplicateStore ==
    LET pf == [T \in Grid |-> RemotePF("", T)]
        PF == <<PFRow("A", "", NULL, NULL, "new", pf, <<"f1">>, 0, 1),
                PFRow("B", "", "v1", NULL, "Up-To-Date", pf, <<"f1">>, 2, 2),
                PFRow("A", "", NULL, NULL, "Up-To-Date", pf, <<"f1">>, 2, 2)>>
        TR == <<TRow(2, <<"f1", "v1">>, 50, NULL, <<"B", NULL, "v1", NULL>>, 2),
                TRow(3, <<"f1">>, 50, NULL, <<"B", NULL, NULL, NULL>>, 2)>>
    IN  [PF |-> PF, TR |-> TR, last |-> 2, cPF |-> PF, cTR |-> TR,
         txn |-> FALSE]

\* that catalogue is the one the script finds; the log keeps it
InitDuplicates ==
    /\ remote \in {r \in Remotes : \A s \in Species : r.kind[s] = "mol"}
    /\ store = DuplicateStore
    /\ pc = "idle"
    /\ loc = NoLoc
    /\ hist = <<Call("check_for_new_species", FALSE),
                [Call("update_species_data", FALSE)
                     EXCEPT !.after = Snapshot(DuplicateStore)]>>
    /\ served = 0

SpecDuplicates == InitDuplicates /\ [][Next]_vars

\* make_name called on its own: the arguments are drawn from names of one or
\* two segments and from values that are None, empty or a label
NameArgs ==
    [name : {<<"f1">>, <<"f1", "x">>}, nsi : {NULL, "", "ortho", "para"},
     hfs : {NULL, "", "hyp1"}, state : {NULL, "", "v1"}]

InitName ==
    /\ remote \in Remotes
    /\ store = [PF |-> EmptyTable, TR |-> EmptyTable, last |-> 0,
                cPF |-> EmptyTable, cTR |-> EmptyTable, txn |-> FALSE]
    /\ pc = "make_name"
    /\ loc \in [args : NameArgs, res : {<<>>}]
    /\ hist = <<>>
    /\ served = 0

\* lines 66-79
MakeName ==
    /\ pc = "make_name"
    /\ pc' = "named"
    /\ loc' = [loc EXCEPT !.res = make_name(loc.args.name, loc.args.nsi,
                                            loc.args.hfs, loc.args.state)]
    /\ UNCHANGED <<remote, store, hist, served>>

NextName == MakeName

SpecName == InitName /\ [][NextName]_vars

\* Nodes with an atom, for whose states calculate_partitionfunction fails at
\* some of the grid temperatures
CalcRemotes ==
    {[r EXCEPT !.calcfail = f] :
        r \in {x \in Remotes : Atoms(x) # {}}, f \in SUBSET Grid \ {{}}}

InitCalc == InitWith(CalcRemotes)

SpecCalc == InitCalc /\ [][Next]_vars

\* The node revises its partition functions between two calls
RevisePartitionFunctions ==
    /\ pc = "idle"
    /\ remote.rev = 0
    /\ remote' = [remote EXCEPT !.rev = 1]
    /\ UNCHANGED <<store, pc, loc, hist, served>>

NextRevise == Next \/ RevisePartitionFunctions

SpecRevise == Init /\ [][NextRevise]_vars

\* The node modifies a species of the result while update_species_data reads
\* the result
RemoteModifies ==
    /\ pc = "usd_trans"
    /\ \E S \in loc.res \ remote.ahead :
          remote' = [remote EXCEPT !.mod[S] = Now, !.ahead = @ \cup {S}]
    /\ UNCHANGED <<store, pc, loc, hist, served>>

NextChange ==
    \/ Next
    \/ CallCheckForUpdates
    \/ CfuHead
    \/ CfuRow
    \/ RemoteModifies

SpecChange == Init /\ [][NextChange]_vars

\* Nodes where molecule B may have no PartitionFunction block, and where the
\* blocks of one isomer may hold a value that is not a number
DiscoveryRemotes ==
    UNION {{[r EXCEPT !.pfn = p, !.pfbad = b] :
                p \in {r.pfn, [r.pfn EXCEPT !["B"] = {}]},
                b \in {{}, {""}, {"ortho"}}} : r \in Remotes}

InitDiscovery == InitWith(DiscoveryRemotes)

SpecDiscovery == InitDiscovery /\ [][Next]_vars

-----------------------------------------------------------------------------
(* Properties of update_species_data *)

\* the running call of update_species_data returns normally in this step
UsdReturns ==
    /\ pc \in {"usd_loop", "usd_trans"}
    /\ pc' = "idle"
    /\ ~hist'[Len(hist')].raised

\* the transitions stored for species sp by the call now running
StoredNow(st, sp) ==
    {t \in DOMAIN st.TR : st.TR[t].key[1] = sp /\ st.TR[t].run = Len(hist)}

\* C1. Failure isolation: when a run of update_species_data in which a
\* transition of species a had no frequency uncertainty returns, no
\* transition stored for a in that run remains, every record of a has status
\* 'Update Failed', and the records that received transitions of a species
\* without an error are 'Up-To-Date'.
C1_FailureIsolation ==
    [][UsdReturns =>
        \A a \in DOMAIN loc.why : loc.why[a] = "uncertainty" =>
            /\ StoredNow(store', a) = {}
            /\ \A i \in RowsOf(store', a) :
                   store'.PF[i].status = "Update Failed"
            /\ \A b \in Species \ loc.swe : \A t \in StoredNow(store', b) :
                   store'.TR[t].pf_id \in DOMAIN store'.PF =>
                       store'.PF[store'.TR[t].pf_id].status = "Up-To-Date"]_vars

\* C2. No error aborts the run: no call of update_species_data ends with an
\* uncaught exception.
C2_NoAbort ==
    \A i \in 1..Len(hist) :
        hist[i].op = "update_species_data" => ~hist[i].raised

\* identity key of a row, the empty string and NULL being the same
Identity(row) ==
    <<row.sid, IFNULL(row.nsi), IFNULL(row.vib), IFNULL(row.hfs)>>

\* C3. Identity uniqueness: between calls, no two committed rows of
\* Partitionfunctions have the same identity key (species id, nuclear spin
\* isomer, vibrational state, hyperfine component).
C3_IdentityUnique ==
    pc = "idle" =>
        \A i, j \in DOMAIN store.cPF :
            i # j => Identity(store.cPF[i]) # Identity(store.cPF[j])

\* C4. Transition ownership: the owner id of every row of Transitions is the
\* id of a row of Partitionfunctions, and that row has the species id and the
\* nuclear spin isomer of the key the transition was imported for.
C4_Ownership ==
    \A t \in DOMAIN store.TR :
        /\ store.TR[t].pf_id \in DOMAIN store.PF
        /\ store.PF[store.TR[t].pf_id].sid = store.TR[t].key[1]
        /\ IFNULL(store.PF[store.TR[t].pf_id].nsi) = IFNULL(store.TR[t].key[2])

\* C5. Full replace: the transitions a record owned before a pass are deleted
\* before the pass stores the first transition for it, so no record ever owns
\* transitions stored by two different calls.
C5_FullReplace ==
    \A t, u \in DOMAIN store.TR :
        store.TR[t].pf_id = store.TR[u].pf_id =>
            store.TR[t].run = store.TR[u].run

\* check_for_new_species and update_species_data were called twice in turn,
\* with the same force_update, and all four calls returned normally
TwoFullPasses ==
    /\ pc = "idle"
    /\ Len(hist) = 4
    /\ hist[2].force = hist[4].force
    /\ \A i \in 1..4 :
        /\ ~hist[i].raised
        /\ hist[i].op = IF i \in {1, 3} THEN "check_for_new_species"
                                         ELSE "update_species_data"

\* C6. Idempotence: against a node that is the same throughout, the second
\* full pass (check_for_new_species, then update_species_data) leaves the
\* catalogue as the first one left it: the same records, the same number of
\* transitions for each record, the same partition functions.
C6_Idempotent ==
    TwoFullPasses => hist[4].after = hist[2].after

\* update_species_data is about to import the transition loc.t under the
\* isomer name Head(loc.nq)
Importing == pc = "usd_trans" /\ loc.nq # <<>>

\* sidx of that import, and the key of its placeholder
TargetKey ==
    <<loc.t.sp, Head(loc.nq),
      IF loc.ismol THEN NoneIfEmpty(loc.t.vib) ELSE NULL, loc.t.hfs>>

PlaceholderKey == <<TargetKey[1], TargetKey[2], NULL, NULL>>

RowsWithKey(st, k) == {i \in DOMAIN st.PF : KeyOf(st.PF[i]) = k}

NewTransitions == DOMAIN store'.TR \ DOMAIN store.TR

\* no record has the target key, and the pass holds an eligible record with
\* the placeholder key
PromotionCase ==
    /\ Importing
    /\ TargetKey \notin DOMAIN loc.sdi
    /\ RowsWithKey(store, TargetKey) = {}
    /\ PlaceholderKey \in DOMAIN loc.sdi
    /\ loc.sdi[PlaceholderKey] > 0
    /\ loc.sdi[PlaceholderKey] \in RowsWithKey(store, PlaceholderKey)

C8_Cloning ==
    [][Importing =>
        \A n \in DOMAIN store'.PF \ DOMAIN store.PF :
            /\ store'.PF[n].vib = TargetKey[3]
            /\ store'.PF[n].hfs = TargetKey[4]
            /\ IFNULL(store'.PF[n].nsi) = IFNULL(TargetKey[2])
            /\ \E b \in DOMAIN store.PF :
                /\ store'.PF[n].sid = store.PF[b].sid
                /\ store'.PF[n].nsi = store.PF[b].nsi
                /\ \A T \in Grid : store'.PF[n].pf[T] = store.PF[b].pf[T]]_vars

\* a clone next to its base: a third record with the state and the hyperfine
\* component of a transition, and the partition function the node supplied
C8_Witness ==
    \E n, b \in DOMAIN store.PF :
        /\ b < n
        /\ store.PF[n].sid = store.PF[b].sid
        /\ store.PF[n].vib = "v1"
        /\ store.PF[n].hfs = "hyp1"
        /\ store.PF[b].hfs = NULL
        /\ store.PF[n].pf = store.PF[b].pf
        /\ \A T \in Grid : store.PF[n].pf[T] = RemotePF("", T)

\* the key of the import, or its placeholder, is marked as not to be updated
Excluded ==
    \/ TargetKey \in DOMAIN loc.sdi /\ loc.sdi[TargetKey] < 0
    \/ /\ TargetKey \notin DOMAIN loc.sdi
       /\ PlaceholderKey \in DOMAIN loc.sdi
       /\ loc.sdi[PlaceholderKey] < 0

\* x is e rounded to six decimals
Rounded(x, e) == x % 10 = 0 /\ x - e <= 5 /\ e - x <= 5

\* update_species_data accepts a transition in this step
Accepting == pc = "usd_trans" /\ loc.nq = <<>> /\ loc'.nq # <<>>

\* C9 as the code has it.  A transition that passes the checks (species not
\* failed, states found, numeric uncertainty and weight, reference state of
\* the isomer found) is imported once for its isomer N and once for no
\* isomer, or once when it names no isomer.  Each import stores one row,
\* unless its key is marked as not to be updated or the Einstein A is not
\* numeric, and then it stores none.  The row's energy is E - E0 under N and
\* E under no isomer, rounded to six decimals, and its name has the segment N
\* under N and no isomer segment otherwise.
C9_DoubleImport ==
    [][/\ Accepting =>
            loc'.nq = IF loc'.t.nsi # NULL /\ loc'.t.nsi # ""
                      THEN <<loc'.t.nsi, NULL>> ELSE <<NULL>>
       /\ Importing =>
            IF Excluded \/ loc.t.ea # "num" THEN NewTransitions = {}
            ELSE \E x \in NewTransitions :
                    /\ NewTransitions = {x}
                    /\ Rounded(store'.TR[x].energy,
                               IF Head(loc.nq) # NULL THEN loc.t.E - NsiOffset
                                                      ELSE loc.t.E)
                    /\ IF Head(loc.nq) # NULL
                       THEN Head(loc.nq) \in SeqToSet(store'.TR[x].name)
                       ELSE "ortho" \notin SeqToSet(store'.TR[x].name)]_vars

\* the two rows of one transition of isomer ortho with E = 53 and E0 = 100
C9_Witness ==
    \E x, y \in DOMAIN store.TR :
        /\ store.TR[x].run = store.TR[y].run
        /\ y = x + 1
        /\ store.TR[x].key[2] = "ortho"
        /\ store.TR[y].key[2] = NULL
        /\ store.TR[x].energy = -50
        /\ store.TR[y].energy = 50
        /\ "ortho" \in SeqToSet(store.TR[x].name)

\* C9 as stated: every import of a transition stores exactly one row, with
\* energy E - E0 under the isomer and E under no isomer.
C9_AsStated ==
    [][Importing =>
        \E x \in NewTransitions :
            /\ NewTransitions = {x}
            /\ store'.TR[x].energy = IF Head(loc.nq) # NULL
                                     THEN loc.t.E - NsiOffset ELSE loc.t.E]_vars

-----------------------------------------------------------------------------
(* Properties of the freshness checks *)

\* a freshness check is about to handle a no-content answer for the species
\* of its row, and deletion was not requested
Archived ==
    /\ pc \in {"cfu_row", "udb_row"}
    /\ loc.ans = "NoContentError"
    /\ ~loc.del

\* C10: when a freshness check (check_for_updates, or update_database with
\* delete_archived=False) handles a no-content answer for a species, every
\* row of that species has status 'Outdated' afterwards, no row of
\* Partitionfunctions is removed and Transitions is unchanged.
C10_Archived ==
    [][Archived =>
        /\ \A i \in DOMAIN store'.PF :
              store'.PF[i].sid = Head(loc.rows).sid
                  => store'.PF[i].status = "Outdated"
        /\ DOMAIN store.PF \subseteq DOMAIN store'.PF
        /\ store'.TR = store.TR]_vars

\* update_database is about to handle a no-content answer for the species of
\* its row, and deletion was requested
ArchivedDelete ==
    /\ pc = "udb_row"
    /\ loc.ans = "NoContentError"
    /\ loc.del

\* C11: when update_database(delete_archived=True) handles a no-content
\* answer for species S, afterwards no row of Partitionfunctions has species
\* id S and no transition that a row of S owned is left.
C11_DeleteArchived ==
    [][ArchivedDelete =>
        LET S == Head(loc.rows).sid
        IN  /\ RowsOf(store', S) = {}
            /\ \A t \in DOMAIN store.TR :
                  store.TR[t].pf_id \in RowsOf(store, S)
                      => t \notin DOMAIN store'.TR]_vars

-----------------------------------------------------------------------------
(* Properties of the status of a record *)

\* a step of a running call of update_species_data
UsdStep == pc \in {"usd_loop", "usd_trans", "usd_import"}

\* the pass for a species group starts in this step
PassStarts == pc = "usd_loop" /\ pc' = "usd_trans"

\* C12. Status ordering within a pass: when the pass for a species group
\* starts, every record of the group that was selected for the run takes
\* status 'Updating', and a record moves to 'Up-To-Date' or 'Update Failed'
\* in a step of update_species_data only from 'Updating'.
C12_StatusOrdering ==
    [][UsdStep =>
        /\ PassStarts =>
              \A i \in DOMAIN store.PF :
                  store.PF[i].sid \in loc'.res /\ Eligible(store.PF[i], loc.force)
                      => store'.PF[i].status = "Updating"
        /\ \A i \in DOMAIN store.PF \cap DOMAIN store'.PF :
              /\ store'.PF[i].status \in {"Up-To-Date", "Update Failed"}
              /\ store'.PF[i].status # store.PF[i].status
              => store.PF[i].status = "Updating"]_vars

\* the last call was one of update_species_data, and it returned normally
UsdReturned ==
    /\ pc = "idle"
    /\ hist # <<>>
    /\ hist[Len(hist)].op = "update_species_data"
    /\ ~hist[Len(hist)].raised

\* C13. Reaping at pass end: when update_species_data has returned, no record
\* has status 'Updating' (a record marked 'Updating' that received no
\* transition has been deleted, any other has moved on).
C13_Reaping ==
    UsdReturned => \A i \in DOMAIN store.PF : store.PF[i].status # "Updating"

\* a step of check_for_updates, or of update_species_data(force_update=False)
AutomaticStep ==
    \/ pc \in {"cfu", "cfu_row"}
    \/ UsdStep /\ ~loc.force

\* the transitions of the row with PF_ID i
Owned(st, i) == {<<t, st.TR[t]>> : t \in {u \in DOMAIN st.TR : st.TR[u].pf_id = i}}

\* C14. Keep is sticky: a step of check_for_updates or of
\* update_species_data(force_update=False) leaves every record with status
\* 'Keep' in place, with status 'Keep' and with the transitions it has.
C14_KeepSticky ==
    [][AutomaticStep =>
        \A i \in DOMAIN store.PF : store.PF[i].status = "Keep" =>
            /\ i \in DOMAIN store'.PF
            /\ store'.PF[i].status = "Keep"
            /\ Owned(store', i) = Owned(store, i)]_vars

\* check_for_updates is about to handle a Last-Modified date for a species
\* none of whose rows it has visited yet
FirstVisit ==
    /\ pc = "cfu_row"
    /\ loc.ans = ""
    /\ loc.lm >= 0
    /\ Cardinality({k \in 1..Len(loc.rows) : loc.rows[k].sid = Head(loc.rows).sid})
           = Cardinality(RowsOf(store, Head(loc.rows).sid))

\* C15. Freshness check result per record: when check_for_updates has handled
\* a Last-Modified date for a species, each record of the species is
\* 'Update Available' if the date is later than its own check date or its own
\* status was not 'Up-To-Date', and 'Up-To-Date' otherwise.
C15_FreshnessPerRecord ==
    [][FirstVisit =>
        \A i \in RowsOf(store, Head(loc.rows).sid) :
            store'.PF[i].status =
                IF store.PF[i].chk < loc.lm \/ store.PF[i].status # "Up-To-Date"
                THEN "Update Available" ELSE "Up-To-Date"]_vars

\* a step of update_species_data(force_update=False), or check_for_updates is
\* about to handle the answer for a row that was 'Outdated' when the call
\* started, all rows of its species being 'Outdated' now
OutdatedStep ==
    \/ UsdStep /\ ~loc.force
    \/ /\ pc = "cfu_row"
       /\ Head(loc.rows).status = "Outdated"
       /\ \A i \in RowsOf(store, Head(loc.rows).sid) :
              store.PF[i].status = "Outdated"

\* C16. Outdated is terminal: a record that is 'Outdated' is still 'Outdated'
\* after a step of a later check_for_updates or
\* update_species_data(force_update=False).
C16_OutdatedTerminal ==
    [][OutdatedStep =>
        \A i \in DOMAIN store.PF \cap DOMAIN store'.PF :
            store.PF[i].status = "Outdated"
                => store'.PF[i].status = "Outdated"]_vars

\* the stati that exclude a record from update_species_data(force_update=False)
Ineligible == {"Up-To-Date", "Keep", "Outdated"}

\* the row with PF_ID i was excluded when the running call of
\* update_species_data selected its records, and has an excluding status
Excluding(i) ==
    /\ store.PF[i].status \in Ineligible
    /\ KeyOf(store.PF[i]) \in DOMAIN loc.sdi
    /\ loc.sdi[KeyOf(store.PF[i])] = -1

\* C17. Ineligible records are untouched: a step of
\* update_species_data(force_update=False) leaves every record that the call
\* excluded for its status ('Up-To-Date', 'Keep', 'Outdated') in place, with
\* its status, its sub-state fields and its transitions.
C17_IneligibleUntouched ==
    [][UsdStep /\ ~loc.force =>
        \A i \in DOMAIN store.PF : Excluding(i) =>
            /\ i \in DOMAIN store'.PF
            /\ store'.PF[i].status = store.PF[i].status
            /\ Identity(store'.PF[i]) = Identity(store.PF[i])
            /\ Owned(store', i) = Owned(store, i)]_vars

\* the fetch for the last species group of a run fails or gives no result,
\* and update_species_data returns
LastFetchFails == pc = "usd_loop" /\ pc' = "idle" /\ ~hist'[Len(hist')].raised

\* C18. Every error marks the species failed: when the fetch for a species
\* fails or gives no result, every selected record of the species has status
\* 'Update Failed' at the end of the run (checked for the species fetched
\* last, for which the failed fetch ends the run).
C18_ErrorMarksFailed ==
    [][LastFetchFails =>
        \A S \in loc.pending : \A i \in RowsOf(store', S) :
            i \in DOMAIN store.PF /\ Eligible(store.PF[i], loc.force)
                => store'.PF[i].status = "Update Failed"]_vars

-----------------------------------------------------------------------------
(* Properties of the committed catalogue *)

\* a step inside the pass for one species group: after the rows were marked
\* and before the end of the pass
InsideGroup == pc = "usd_trans" /\ pc' = "usd_trans"

\* C19. Per-species atomicity: between the marking of a species group and the
\* end of its pass nothing is committed, so that the committed catalogue never
\* holds a part of the group's inserts, promotions and clones.
C19_Atomicity ==
    [][InsideGroup =>
        /\ store'.cPF = store.cPF
        /\ store'.cTR = store.cTR]_vars

\* C20. Crash recovery: right after update_species_data was interrupted
\* during the pass for a species group, every record of the species in flight
\* that the run had selected has status 'Updating'.
C20_CrashRecovery ==
    [][Crash /\ pc = "usd_trans" =>
        \A i \in DOMAIN store'.PF :
            /\ i \in DOMAIN store.PF
            /\ store.PF[i].sid = loc.cur
            /\ Eligible(store.PF[i], loc.force)
            => store'.PF[i].status = "Updating"]_vars

-----------------------------------------------------------------------------
(* Properties of the error handling *)

\* check_for_updates is about to handle a timeout of the head request
CfuTimeout == pc = "cfu_row" /\ loc.ans = "TimeOutError"

\* do_species_data_request gave no result (both queries timed out or failed)
\* for the species update_species_data fetched in this step
FetchWithoutResult == pc = "usd_loop" /\ pc' # "usd_trans"

Duplicates(st) ==
    {p \in (DOMAIN st.PF) \X (DOMAIN st.PF) :
        p[1] < p[2] /\ KeyOf(st.PF[p[1]]) = KeyOf(st.PF[p[2]])}

\* the records update_species_data found when it was called, where the log
\* keeps the catalogue the call before it left
FoundByCall ==
    IF Len(hist) >= 2 THEN hist[Len(hist) - 1].after.PF ELSE EmptyTable

\* C22. Duplicate identity keys: when update_species_data has returned, no
\* two records that had the same identity key when it was called are both
\* kept with that key while one of them owns transitions stored by the call.
C22_DuplicatesResolved ==
    UsdReturned =>
        \A p \in Duplicates(store) :
            /\ p[1] \in DOMAIN FoundByCall
            /\ p[2] \in DOMAIN FoundByCall
            /\ SubSeq(FoundByCall[p[1]], 1, 4) = SubSeq(FoundByCall[p[2]], 1, 4)
            => \A t \in DOMAIN store.TR :
                   store.TR[t].run = Len(hist)
                       => store.TR[t].pf_id \notin {p[1], p[2]}

\* C23. Status domain: the status of every record, committed or not, is one
\* of the values of STATI in their exact spelling.
C23_StatusDomain ==
    \A i \in DOMAIN store.PF : store.PF[i].status \in STATI

-----------------------------------------------------------------------------
(* Properties of make_name *)

Present(x) == x # NULL /\ x # ""

\* C24. Naming convention: make_name(name, nsi, hfs, state) returns name
\* followed by the segments nsi, state, hfs in that order, where a segment is
\* there if and only if its value is neither None nor the empty string; no
\* segment it appended is empty.
C24_Naming ==
    pc = "named" =>
        LET a == loc.args
            n == Len(a.name)
        IN  /\ loc.res = a.name \o SelectSeq(<<a.nsi, a.state, a.hfs>>, Present)
            /\ \A k \in n + 1 .. Len(loc.res) : Present(loc.res[k])

\* a name made with an empty isomer, a state and a hyperfine label
C24_Witness ==
    /\ pc = "named"
    /\ loc.args.nsi = ""
    /\ loc.args.state = "v1"
    /\ loc.args.hfs = "hyp1"
    /\ loc.res = loc.args.name \o <<"v1", "hyp1">>

-----------------------------------------------------------------------------
(* Properties of the checks on a transition *)

\* the transition read in this step has a state reference that
\* result.get_state does not resolve
MissingState ==
    /\ pc = "usd_trans"
    /\ pc' = "usd_trans"
    /\ \E S \in Species :
        S \notin loc.swe /\ S \in loc'.swe /\ loc'.why[S] = "state"

\* C25. Skip after missing state reference: the step that meets an unresolved
\* state reference of species S stores nothing and puts S among the species
\* with an error, where it stays for the rest of the pass; no transition of a
\* species with an error is accepted or stored; and a transition accepted for
\* another species is stored as it would be otherwise.
C25_SkipAfterMissingState ==
    [][pc = "usd_trans" =>
        /\ MissingState => store' = store /\ loc'.nq = <<>>
        /\ pc' = "usd_trans" => loc.swe \subseteq loc'.swe
        /\ Accepting => loc'.t.sp \notin loc.swe
        /\ \A x \in NewTransitions : store'.TR[x].key[1] \notin loc.swe
        /\ (Importing /\ ~Excluded /\ loc.t.ea = "num") => NewTransitions # {}]_vars

\* A has met a missing state, and a transition of B is being imported
C25_Witness ==
    /\ Importing
    /\ "A" \in loc.swe
    /\ loc.why["A"] = "state"
    /\ loc.t.sp = "B"
    /\ ~Excluded
    /\ loc.t.ea = "num"

\* update_species_data reads the next transition of a result in this step
ReadsTransition == pc = "usd_trans" /\ loc.nq = <<>> /\ served' = served + 1

\* C26. Non-numeric required fields: the step that reads a transition, also
\* one whose frequency uncertainty or statistical weight is there but is not
\* a number, accepts it, skips it or puts its species among the species with
\* an error, and the pass goes on with the next transition.
C26_NonNumericSkipped ==
    [][ReadsTransition =>
        /\ pc' = "usd_trans"
        /\ ~hist'[Len(hist')].raised
        /\ store' = store]_vars

-----------------------------------------------------------------------------
(* Properties of the choice of the record for a transition *)

\* the transitions the running call has stored for the record db_id
StoredForRow(db_id) ==
    {x \in DOMAIN store.TR :
        store.TR[x].pf_id = db_id /\ store.TR[x].run = Len(hist)}

\* the eligible records of the pass that have the species and isomer of the
\* target key, hold no transition of this call, and differ from the target
\* key in one field only, which they leave open
PartialCandidates ==
    {k \in DOMAIN loc.sdi :
        /\ k[1] = TargetKey[1] /\ k[2] = TargetKey[2]
        /\ loc.sdi[k] > 0
        /\ StoredForRow(loc.sdi[k]) = {}
        /\ \/ k[3] = NULL /\ TargetKey[3] # NULL /\ k[4] = TargetKey[4]
           \/ k[4] = NULL /\ TargetKey[4] # NULL /\ k[3] = TargetKey[3]}

\* neither the target key nor its placeholder is in the look-up table, and
\* there is such a record
PartialCase ==
    /\ Importing
    /\ TargetKey \notin DOMAIN loc.sdi
    /\ PlaceholderKey \notin DOMAIN loc.sdi
    /\ PartialCandidates # {}

\* C27. Partial promotion: when neither the target key nor its placeholder
\* has a record and a record of the same species and isomer without
\* transitions of this pass differs from the target key in one field, the
\* import re-keys one such record to the target key and adds no record.
C27_PartialPromotion ==
    [][PartialCase =>
        /\ DOMAIN store'.PF = DOMAIN store.PF
        /\ \E k \in PartialCandidates :
              KeyOf(store'.PF[loc.sdi[k]]) = TargetKey]_vars

\* the records that hold a transition stored in the pass that is running
ReceivedInPass ==
    {loc.sdi[k] : k \in {x \in DOMAIN loc.tpn \cap DOMAIN loc.sdi :
                            loc.tpn[x] > 0}}

\* C28. Promotion tie-break: a record that holds a transition stored in the
\* running pass keeps its identity key in every later step of the pass.
C28_NoRekeyAfterTransition ==
    [][pc = "usd_trans" /\ pc' = "usd_trans" =>
        \A i \in ReceivedInPass :
            /\ i \in DOMAIN store'.PF
            /\ KeyOf(store'.PF[i]) = KeyOf(store.PF[i])]_vars

-----------------------------------------------------------------------------
(* Properties of the partition functions *)

\* the pass for the group of an atom ends in this step, the atom is in the
\* result, and every key of transitions_processed is in the look-up table or
\* belongs to a species with an error
AtomPassEnds ==
    /\ pc = "usd_trans"
    /\ loc.nq = <<>>
    /\ served' = served
    /\ pc' # "usd_trans"
    /\ ~loc.ismol
    /\ loc.cur \in loc.res
    /\ \A k \in SeqToSet(loc.tpk) : k[1] \in loc.swe \/ k \in DOMAIN loc.sdi

\* C29. Partition-function computation failure is contained: when the pass of
\* an atom ends with parse_and_update_partitionfunctions, the call goes on
\* without an exception, and a grid temperature at which the computation
\* failed does not get the value computed for another temperature.
C29_ComputationFailureContained ==
    [][AtomPassEnds =>
        /\ ~hist'[Len(hist')].raised
        /\ \A i \in RowsOf(store, loc.cur) : \A T \in remote.calcfail :
              \/ store'.PF[i].pf[T] = store.PF[i].pf[T]
              \/ store'.PF[i].pf[T] \notin {AtomPF(U) : U \in Grid \ {T}}]_vars

\* the pass for a species group ends in this step without an exception
PassEnds ==
    /\ pc = "usd_trans"
    /\ loc.nq = <<>>
    /\ served' = served
    /\ pc' # "usd_trans"
    /\ ~hist'[Len(hist')].raised

\* the records of a molecule of the result that the end of the pass makes
\* 'Up-To-Date', and for whose isomer the result has a PartitionFunction block
MadeUpToDate ==
    {i \in DOMAIN store.PF \cap DOMAIN store'.PF :
        /\ store.PF[i].sid \in Molecules(remote) \cap loc.res
        /\ IFNULL(store.PF[i].nsi) \in remote.pfn[store.PF[i].sid]
        /\ store.PF[i].status # "Up-To-Date"
        /\ store'.PF[i].status = "Up-To-Date"}

\* C30. Partition functions follow the remote source: a record of a molecule
\* that the end of a pass makes 'Up-To-Date' holds, at each grid temperature,
\* the value the result supplies for the isomer of the record.
C30_FollowsRemote ==
    [][PassEnds =>
        \A i \in MadeUpToDate : \A T \in Grid :
            store'.PF[i].pf[T] = RemotePF(IFNULL(store'.PF[i].nsi), T)]_vars

-----------------------------------------------------------------------------
(* Properties of check_for_new_species *)

\* the species id the loop of check_for_new_species visits in this step
Visited == IF pc' = "idle" THEN loc.pending ELSE loc.pending \ loc'.pending

\* the records this step adds
NewRecords == DOMAIN store'.PF \ DOMAIN store.PF

\* the step leaves every transition and every record there was as it is, and
\* the records it adds are placeholders of the visited species
OnlyAddsPlaceholders ==
    /\ store'.TR = store.TR
    /\ \A i \in DOMAIN store.PF :
          i \in DOMAIN store'.PF /\ store'.PF[i] = store.PF[i]
    /\ \A n \in NewRecords :
          /\ store'.PF[n].sid \in Visited
          /\ store'.PF[n].vib = NULL
          /\ store'.PF[n].hfs = NULL

\* the node entry of species s can be imported: s is an atom, or a molecule
\* with a PartitionFunction block whose values are numbers
Importable(s) == s \in Atoms(remote) \/ remote.pfn[s] \ remote.pfbad # {}

\* C31 as the code has it.  A step of check_for_new_species adds records for
\* the species S it visits if and only if no record with species id S exists
\* and the node entry of S can be imported (an atom, or a molecule with at
\* least one PartitionFunction block that parses); it leaves every transition
\* and every record that existed as it is, so that a second call adds
\* nothing for a species the first call imported.
C31_Discovery ==
    [][pc = "cfns" =>
        /\ OnlyAddsPlaceholders
        /\ \A s \in Visited :
              NewRecords # {} <=> (RowsOf(store, s) = {} /\ Importable(s))]_vars

\* check_for_new_species is run again on a catalogue that holds transitions,
\* and visits a species that has records and one that has none
C31_Witness ==
    /\ pc = "cfns"
    /\ store.TR # EmptyTable
    /\ \E s \in loc.pending : RowsOf(store, s) # {}
    /\ \E s \in loc.pending : RowsOf(store, s) = {}

\* C31. Discovery only adds placeholders: a step of check_for_new_species
\* adds records for the species S it visits if and only if no record with
\* species id S exists, and leaves every transition and every record that
\* existed as it is.
C31_AsStated ==
    [][pc = "cfns" =>
        /\ OnlyAddsPlaceholders
        /\ \A s \in Visited : NewRecords # {} <=> RowsOf(store, s) = {}]_vars

-----------------------------------------------------------------------------
(* Properties of the loop over species_dict *)

InUsd == pc \in {"usd_loop", "usd_trans"}

\* the transitions of the result that the for loop has not read yet (for a
\* node that may answer anything: the transitions it may still serve)
Unread ==
    IF remote.fixed THEN Len(loc.trs) + 1 - loc.ti ELSE MaxTrans - served

\* what is left to do in the pass that is running: three units for a
\* transition not read yet, and one for each isomer name left in nsinames
PassMeasure ==
    IF pc # "usd_trans" THEN 0
    ELSE 1 + 3 * Unread
           + (IF remote.fixed /\ loc.nq = <<>> THEN 3 ELSE Len(loc.nq))

\* what is left to do in the call: species_dict first, then the pass
Measure == Cardinality(loc.pending) * (3 * MaxTrans + 8) + PassMeasure

\* C32. Bounded driver loop: species_dict holds, when the while loop starts,
\* the species ids with a selected record; every fetch is made for a species
\* id that is in species_dict and takes it out, together with the other
\* species of its result; no step of the call puts a species id back; and
\* every step of the call makes what is left to do smaller, so the call ends.
C32_BoundedLoop ==
    [][/\ (pc = "idle" /\ pc' = "usd_loop") =>
             loc'.pending =
                 {S \in Species : \E i \in RowsOf(store, S) :
                                     Eligible(store.PF[i], loc'.force)}
       /\ pc = "usd_loop" =>
             \E S \in loc.pending : loc'.pending \subseteq loc.pending \ {S}
       /\ (pc = "usd_trans" /\ InUsd') => loc'.pending = loc.pending
       /\ (InUsd /\ InUsd') => Measure' < Measure
       /\ InUsd => Measure > 0]_vars

\* two species ids wait for their fetch, one of them with two records
C32_Witness ==
    /\ pc = "usd_loop"
    /\ Cardinality(loc.pending) = 2
    /\ \E S \in loc.pending : Cardinality(RowsOf(store, S)) >= 2

-----------------------------------------------------------------------------
(* Properties of the end of a pass *)

\* the transition loop of the pass may be over
LoopOver == pc = "usd_trans" /\ loc.nq = <<>> /\ Ended

\* the keys of transitions_processed the final loop looks up
LookedUp == {k \in SeqToSet(loc.tpk) : k[1] \notin loc.swe}

\* C33. Resolver look-up table stays complete: at the end of the transition
\* loop every key of transitions_processed whose species has not failed has
\* an entry in species_dict_id.
C33_LookupComplete ==
    LoopOver => LookedUp \subseteq DOMAIN loc.sdi

\* C34. Transitions stay with their own species: every transition a step of
\* update_species_data stores is owned by a record whose species id is the
\* species id of the remote transition.
C34_OwnSpecies ==
    [][Importing =>
        \A n \in NewTransitions :
            /\ store'.TR[n].pf_id \in DOMAIN store'.PF
            /\ store'.PF[store'.TR[n].pf_id].sid = loc.t.sp]_vars

\* the records the final loop reaches through a key for which the pass
\* resolved a transition and stored none
ResolvedNotStored ==
    {loc.sdi[k] : k \in {x \in LookedUp \cap DOMAIN loc.sdi :
                            loc.sdi[x] > 0 /\ loc.tpn[x] = 0}}

\* C35. Up-To-Date means complete: the end of a pass makes a record
\* 'Up-To-Date' only if the transitions that resolved to it in the pass were
\* stored; a record to which a transition resolved and for which none was
\* stored does not end the pass as 'Up-To-Date'.
C35_UpToDateComplete ==
    [][PassEnds =>
        \A i \in ResolvedNotStored \cap DOMAIN store'.PF :
            store'.PF[i].status # "Up-To-Date"]_vars

-----------------------------------------------------------------------------
(* Properties of a Request used for several species *)

\* getlastmodified has returned a value for the species of the row in turn
HeadReturned == pc \in {"cfu_row", "udb_row"} /\ loc.ans = ""

\* C36. Freshness answers do not leak between species: the value
\* getlastmodified returns for a species is the date of the Last-Modified
\* header of the answer to the head request of that species, and None when
\* that answer has no such header or one that cannot be parsed.
C36_NoLeak ==
    HeadReturned =>
        loc.lm = IF loc.head.kind = "date" THEN loc.head.date ELSE NoDate

-----------------------------------------------------------------------------
(* Properties of delete_species *)

\* C37. delete_species frame: delete_species(S), called for an archived
\* species, leaves every record of a species other than S, and every
\* transition such a record owns, as it was.
C37_DeleteFrame ==
    [][ArchivedDelete =>
        LET S == Head(loc.rows).sid
            others == {i \in DOMAIN store.PF : store.PF[i].sid # S}
        IN  /\ \A i \in others :
                  i \in DOMAIN store'.PF /\ store'.PF[i] = store.PF[i]
            /\ \A t \in DOMAIN store.TR :
                  store.TR[t].pf_id \in others =>
                      t \in DOMAIN store'.TR /\ store'.TR[t] = store.TR[t]]_vars

-----------------------------------------------------------------------------
(* Properties of the import of a molecule with several isomers *)

\* the isomers of the PartitionFunction blocks of a molecule with several
\* of them, and those among them that have a record
SeveralIsomers == {s \in Molecules(remote) : Cardinality(remote.pfn[s]) >= 2}

IsomersStored(st, s) == {IFNULL(st.PF[i].nsi) : i \in RowsOf(st, s)}

\* C38. Discovery is all-or-nothing per molecule: when check_for_new_species
\* has dealt with a molecule that had no record and has PartitionFunction
\* blocks for several isomers, the molecule has a record for each of these
\* isomers or no record.
C38_AllOrNothing ==
    [][pc = "cfns" =>
        \A s \in Visited \cap SeveralIsomers :
            RowsOf(store, s) = {} =>
                \/ RowsOf(store', s) = {}
                \/ remote.pfn[s] \subseteq IsomersStored(store', s)]_vars

-----------------------------------------------------------------------------
(* Properties of a node that modifies its data *)

\* check_for_updates has the date at which the node last modified the
\* species of the row in turn, and the node has modified that species since
\* its data were last fetched
ChangeSeen ==
    /\ pc = "cfu_row"
    /\ loc.ans = ""
    /\ Head(loc.rows).sid \in remote.ahead
    /\ loc.head = HeadAnswer("date", remote.mod[Head(loc.rows).sid])

\* C39. No remote change is lost: when check_for_updates learns the date of
\* the last modification of a species that the node has modified since its
\* data were fetched, every record of the species is 'Update Available'
\* afterwards.
C39_NoChangeLost ==
    [][ChangeSeen =>
        \A i \in RowsOf(store', Head(loc.rows).sid) :
            store'.PF[i].status = "Update Available"]_vars

=============================================================================
